---- MODULE Spec2Model ----
(***************************************************************************)
(* athena2glue: the migration pipeline that turns one Athena SQL script    *)
(* into a Glue/PySpark job.  The model follows src/src: the LangGraph      *)
(* wiring (graph.py), the command surface (agent.py) and the seven nodes.  *)
(*                                                                         *)
(* Representation.  Text handled character by character by the program    *)
(* (the raw and cleaned script, identifiers, converted SQL) is a sequence  *)
(* of one-character strings.  sqlglot is an external library: what         *)
(* parse_one returns for the cleaned script of a run is part of the run's  *)
(* environment (env.parsed), and SQL text produced by sqlglot's serializer *)
(* (a CTE body, the terminal query) is carried as the tree it denotes.     *)
(* Scripts carry WITH only at the top level.                               *)
(***************************************************************************)
EXTENDS Integers, Sequences, FiniteSets, TLC

VARIABLES
    env,        \* the run's surroundings: entry point, source file, parser answer, output path before the run
    pc,         \* the node the graph is at, or "cli", "END", "Failed"
    state,      \* the AgentState record threaded through the nodes
    disk,       \* the output path GL_HD_SAS_THR_<business_name>.py
    exitCode,   \* exit status of the command surface: -1 while running / not a cli run
    error,      \* the exception that ended the run, "" if none
    executed    \* history: the nodes that have been entered, in order

vars == <<env, pc, state, disk, exitCode, error, executed>>

----------------------------------------------------------------------------
(* Bounds *)

MaxLen == 6          \* longest raw text given to clean_sql
MaxRefs == 3         \* most table references in one fragment given to the Table Extractor
MaxCtes == 2         \* most CTE definitions in a script
MaxLits == 3         \* most literals in the main body of a script given to date inference

----------------------------------------------------------------------------
(* Text helpers *)

RECURSIVE SeqsUpTo(_, _)
SeqsUpTo(S, n) ==
    IF n = 0 THEN {<<>>}
    ELSE LET shorter == SeqsUpTo(S, n - 1)
         IN  shorter \cup {Append(s, x) : s \in {t \in shorter : Len(t) = n - 1}, x \in S}

Drop(s, n) == SubSeq(s, n + 1, Len(s))

StartsWith(s, p) == Len(s) >= Len(p) /\ SubSeq(s, 1, Len(p)) = p

\* str.find: the 1-based index of the first occurrence of p in s, 0 if none
RECURSIVE FindFrom(_, _, _)
FindFrom(s, p, i) ==
    IF i + Len(p) - 1 > Len(s) THEN 0
    ELSE IF SubSeq(s, i, i + Len(p) - 1) = p THEN i
    ELSE FindFrom(s, p, i + 1)

Contains(s, p) == FindFrom(s, p, 1) # 0

\* str.replace(old, new): leftmost, non-overlapping occurrences, old non-empty
RECURSIVE Replace(_, _, _)
Replace(s, old, new) ==
    IF Len(old) = 0 \/ Len(s) < Len(old) THEN s
    ELSE IF StartsWith(s, old) THEN new \o Replace(Drop(s, Len(old)), old, new)
    ELSE <<Head(s)>> \o Replace(Tail(s), old, new)

RECURSIVE Join(_, _)
Join(parts, sep) ==
    IF parts = <<>> THEN <<>>
    ELSE IF Len(parts) = 1 THEN parts[1]
    ELSE parts[1] \o sep \o Join(Tail(parts), sep)

RECURSIVE Concat(_)
Concat(parts) == IF parts = <<>> THEN <<>> ELSE Head(parts) \o Concat(Tail(parts))

\* str.lower on the letters the model uses
LowerChar(c) ==
    CASE c = "A" -> "a"
      [] c = "B" -> "b"
      [] c = "U" -> "u"
      [] c = "X" -> "x"
      [] OTHER -> c

Lower(s) == [i \in 1..Len(s) |-> LowerChar(s[i])]

IsSpace(c) == c \in {" ", "\n", "\t"}

----------------------------------------------------------------------------
(* utils/sql_parser.py: SQLParser.clean_sql *)

\* the rest of a line comment: [^\n]* stops in front of the newline
RECURSIVE SkipToNewline(_)
SkipToNewline(s) ==
    IF s = <<>> \/ Head(s) = "\n" THEN s ELSE SkipToNewline(Tail(s))

\* re.sub(r'--[^\n]*', '', sql)
RECURSIVE RemoveLineComments(_)
RemoveLineComments(s) ==
    IF s = <<>> THEN <<>>
    ELSE IF StartsWith(s, <<"-", "-">>) THEN RemoveLineComments(SkipToNewline(Drop(s, 2)))
    ELSE <<Head(s)>> \o RemoveLineComments(Tail(s))

\* re.sub(r'/\*.*?\*/', '', sql, flags=re.DOTALL): non-greedy, an unclosed /* stays
RECURSIVE RemoveBlockComments(_)
RemoveBlockComments(s) ==
    IF s = <<>> THEN <<>>
    ELSE IF StartsWith(s, <<"/", "*">>) /\ FindFrom(s, <<"*", "/">>, 3) # 0
         THEN RemoveBlockComments(Drop(s, FindFrom(s, <<"*", "/">>, 3) + 1))
    ELSE <<Head(s)>> \o RemoveBlockComments(Tail(s))

RECURSIVE SkipSpaces(_)
SkipSpaces(s) ==
    IF s = <<>> \/ ~IsSpace(Head(s)) THEN s ELSE SkipSpaces(Tail(s))

\* re.sub(r'\s+', ' ', sql)
RECURSIVE CollapseSpaces(_)
CollapseSpaces(s) ==
    IF s = <<>> THEN <<>>
    ELSE IF IsSpace(Head(s)) THEN <<" ">> \o CollapseSpaces(SkipSpaces(s))
    ELSE <<Head(s)>> \o CollapseSpaces(Tail(s))

RECURSIVE RStrip(_)
RStrip(s) ==
    IF s = <<>> \/ ~IsSpace(s[Len(s)]) THEN s ELSE RStrip(SubSeq(s, 1, Len(s) - 1))

\* str.strip()
Strip(s) == RStrip(SkipSpaces(s))

clean_sql(sql) == Strip(CollapseSpaces(RemoveBlockComments(RemoveLineComments(sql))))

----------------------------------------------------------------------------
(* sqlglot trees.  A tree is what parse_one returns: its WITH clause (CTE   *)
(* definitions in declaration order), the table-reference nodes and the     *)
(* literal nodes of the query itself, each in the order find_all meets them.*)

NoText == <<>>

TableNode(catalog, db, name) == [catalog |-> catalog, db |-> db, name |-> name]

Select(refs, lits) == [with |-> <<>>, refs |-> refs, lits |-> lits]

EmptyTree == Select(<<>>, <<>>)

\* parsed.find_all(exp.Table): breadth-first, so the query's own references come
\* before the references nested in its CTE bodies
find_all_Table(tree) ==
    tree.refs \o Concat([i \in 1..Len(tree.with) |-> tree.with[i].this.refs])

\* the CTE nodes enumerated last to first
find_all_CTE_Reversed(tree) ==
    [i \in 1..Len(tree.with) |-> tree.with[Len(tree.with) + 1 - i]]

\* parsed.find_all(exp.CTE)
find_all_CTE(tree) == tree.with

----------------------------------------------------------------------------
(* config.py *)

\* TABLE_CONFIG: four lower-case "schema.table" keys, all "iceberg"; the model
\* keeps two of them under one-letter names (a.b and x.u)
TABLE_CONFIG ==
    [k \in {<<"a", ".", "b">>, <<"x", ".", "u">>} |-> "iceberg"]

JOB_PREFIX == "GL_HD_SAS_THR_"

----------------------------------------------------------------------------
(* nodes/extract_tables_node.py *)

\* TableSourceInfo(full_name, catalog, catalog_name, database, table, table_type,
\*                 python_get, python_var), lines 44-57
TableSourceInfo(node) ==
    LET full_name == node.db \o <<".">> \o node.name
    IN  [full_name    |-> full_name,
         catalog      |-> IF full_name \in DOMAIN TABLE_CONFIG
                          THEN "glue_catalog" ELSE "spark_catalog",
         catalog_name |-> node.catalog,
         database     |-> node.db,
         table        |-> node.name,
         table_type   |-> IF full_name \in DOMAIN TABLE_CONFIG
                          THEN TABLE_CONFIG[full_name] ELSE "unknown",
         python_get   |-> <<"tbl_", node.name, " = self._get_table('", node.name, "')">>,
         python_var   |-> <<"t", "l", "b", "_">> \o node.name]

\* line 43 with the schema test dropped
IsNewTable_AnySchema(node, tables) ==
    node.name \notin {tables[i].table : i \in DOMAIN tables}

\* line 43: if schema_name and table_name not in [t.table for t in tables]
IsNewTable(node, tables) ==
    /\ node.db # NoText
    /\ node.name \notin {tables[i].table : i \in DOMAIN tables}

\* the loop of lines 38-58 over the nodes still to visit
RECURSIVE CollectTables(_, _)
CollectTables(nodes, tables) ==
    IF nodes = <<>> THEN tables
    ELSE CollectTables(Tail(nodes),
                       IF IsNewTable(Head(nodes), tables)
                       THEN Append(tables, TableSourceInfo(Head(nodes)))
                       ELSE tables)

\* lines 30-36 with the parse error swallowed: an empty list instead of the raise
extract_tables_ast_Tolerant(parsed) ==
    IF ~parsed.ok THEN [raised |-> "", value |-> <<>>]
    ELSE [raised |-> "", value |-> CollectTables(find_all_Table(parsed.tree), <<>>)]

\* extract_tables_ast(sql_text); parsed is sqlglot's answer for sql_text.
\* The result is the exception raised ("" if none) and the returned list.
extract_tables_ast(parsed) ==
    IF ~parsed.ok THEN [raised |-> "ValueError", value |-> <<>>]
    ELSE [raised |-> "", value |-> CollectTables(find_all_Table(parsed.tree), <<>>)]

----------------------------------------------------------------------------
(* models/agent_state.py *)

\* create_initial_state
create_initial_state(sql_file_path, business_name, output_dir) ==
    [sql_file_path     |-> sql_file_path,
     business_name     |-> business_name,
     output_dir        |-> output_dir,
     raw_sql           |-> NoText,
     cleaned_sql       |-> NoText,
     last_select       |-> EmptyTree,
     new_last_select   |-> NoText,
     tables            |-> <<>>,
     ctes              |-> <<>>,
     date_replacements |-> <<>>]

----------------------------------------------------------------------------
(* graph.py *)

EntryPoint == "parse_sql"

\* the add_edge calls of create_agent_graph with one node bypassed
Edge_Skip(node) ==
    CASE node = "parse_sql"                -> "extract_tables_node"
      [] node = "extract_tables_node"      -> "extract_ctes_node"
      [] node = "extract_ctes_node"        -> "extract_dates_node"
      [] node = "extract_last_select_node" -> "extract_dates_node"
      [] node = "extract_dates_node"       -> "convert_syntax_node"
      [] node = "convert_syntax_node"      -> "generate_code_node"
      [] node = "generate_code_node"       -> "END"

\* the add_edge calls of create_agent_graph
Edge(node) ==
    CASE node = "parse_sql"                -> "extract_tables_node"
      [] node = "extract_tables_node"      -> "extract_ctes_node"
      [] node = "extract_ctes_node"        -> "extract_last_select_node"
      [] node = "extract_last_select_node" -> "extract_dates_node"
      [] node = "extract_dates_node"       -> "convert_syntax_node"
      [] node = "convert_syntax_node"      -> "generate_code_node"
      [] node = "generate_code_node"       -> "END"

\* a node returned: the engine hands the record to the next node; after the last
\* one graph.invoke returns and the command surface ends with status 0
Continue(node, newState) ==
    /\ state' = newState
    /\ pc' = Edge(node)
    /\ executed' = Append(executed, node)
    /\ exitCode' = IF Edge(node) = "END" /\ env.entry = "cli" THEN 0 ELSE exitCode
    /\ error' = error

\* a node raised: graph.invoke propagates, main logs and re-raises (agent.py
\* 64-67) and cli exits with status 1 (agent.py 115-118)
Raise(node, exc, newState) ==
    /\ state' = newState
    /\ pc' = "Failed"
    /\ executed' = Append(executed, node)
    /\ exitCode' = IF env.entry = "cli" THEN 1 ELSE exitCode
    /\ error' = exc

----------------------------------------------------------------------------
(* agent.py *)

\* cli -> main, lines 44-60: the existence test, then the initial record and
\* graph.invoke
cli ==
    /\ pc = "cli"
    /\ IF env.file = "missing"
       THEN /\ pc' = "Failed"
            /\ error' = "FileNotFoundError"
            /\ exitCode' = 1
            /\ UNCHANGED state
       ELSE /\ pc' = EntryPoint
            /\ state' = create_initial_state(env.sql_file_path, "biz", "out")
            /\ UNCHANGED <<error, exitCode>>
    /\ UNCHANGED <<env, disk, executed>>

----------------------------------------------------------------------------
(* nodes/parse_sql_node.py *)

parse_sql_node ==
    /\ pc = "parse_sql"
    /\ IF state.sql_file_path = ""
       THEN Raise("parse_sql", "ValueError", state)
       ELSE IF env.file = "missing"
       THEN Raise("parse_sql", "FileNotFoundError", state)
       ELSE IF env.file = "unreadable"
       THEN Raise("parse_sql", "IOError", state)
       ELSE Continue("parse_sql",
                     [state EXCEPT !.raw_sql = env.raw,
                                   !.cleaned_sql = clean_sql(env.raw)])
    /\ UNCHANGED <<env, disk>>

\* sqlglot.parse_one(cleaned_sql) of this run, in the default dialect
parse_cleaned == env.parsed

extract_tables_node ==
    /\ pc = "extract_tables_node"
    /\ LET got == extract_tables_ast(parse_cleaned)
       IN  IF got.raised # ""
           THEN Raise("extract_tables_node", got.raised, state)
           ELSE Continue("extract_tables_node", [state EXCEPT !.tables = got.value])
    /\ UNCHANGED <<env, disk>>

----------------------------------------------------------------------------
(* nodes/extract_ctes_node.py *)

\* python_method = "" and python_create = "": the texts not generated yet
NoMethod == [name |-> NoText, args_def |-> <<>>, table_vars |-> <<>>, body |-> NoText]
NoCreate == [method |-> NoText, args_call |-> <<>>, view |-> NoText]

\* CTESourceInfo(name, inner_sql, new_sql="", position, python_method="",
\*               python_create="", tables), lines 34-44
CTESourceInfo(node, index, tables) ==
    [name          |-> node.alias,
     inner_sql     |-> node.this,
     new_sql       |-> NoText,
     position      |-> index,
     python_method |-> NoMethod,
     python_create |-> NoCreate,
     tables        |-> tables]

\* line 43 with the references of every CTE body handed to the extractor
CteTables_WholeWith(nodes, k, ok) ==
    extract_tables_ast([ok |-> ok,
                        tree |-> Select(Concat([i \in DOMAIN nodes |-> nodes[i].this.refs]), <<>>)])

\* line 43: tables=extract_tables_ast(cte_sql), cte_sql the text of the k-th
\* CTE body alone
CteTables(nodes, k, ok) == extract_tables_ast([ok |-> ok, tree |-> nodes[k].this])

\* the loop of lines 33-45; reparse[i] is whether sqlglot parses the text it
\* serialized for the i-th CTE body
RECURSIVE CollectCtes(_, _, _)
CollectCtes(nodes, reparse, ctes) ==
    IF Len(ctes) = Len(nodes) THEN [raised |-> "", value |-> ctes]
    ELSE LET k == Len(ctes) + 1
             got == CteTables(nodes, k, reparse[k])
         IN  IF got.raised # "" THEN [raised |-> got.raised, value |-> <<>>]
             ELSE CollectCtes(nodes, reparse,
                              Append(ctes, CTESourceInfo(nodes[k], k - 1, got.value)))

\* extract_ctes_ast(sql_text); parsed is sqlglot's answer for sql_text
extract_ctes_ast(parsed, reparse) ==
    IF ~parsed.ok THEN [raised |-> "ParseError", value |-> <<>>]
    ELSE CollectCtes(find_all_CTE(parsed.tree), reparse, <<>>)

extract_ctes_node ==
    /\ pc = "extract_ctes_node"
    /\ \E bad \in 0..Len(parse_cleaned.tree.with) :
          LET reparse == [i \in 1..Len(parse_cleaned.tree.with) |-> i # bad]
              got == extract_ctes_ast(parse_cleaned, reparse)
          IN  IF got.raised # ""
              THEN Raise("extract_ctes_node", got.raised, state)
              ELSE Continue("extract_ctes_node", [state EXCEPT !.ctes = got.value])
    /\ UNCHANGED <<env, disk>>

----------------------------------------------------------------------------
(* nodes/extract_last_select_node.py *)

\* lines 26-29 without the del: the whole statement serialized
extract_final_query_ast_KeepWith(parsed) ==
    IF ~parsed.ok THEN [raised |-> "ParseError", value |-> EmptyTree]
    ELSE [raised |-> "", value |-> parsed.tree]

\* extract_final_query_ast(sql_text): del parsed.args["with_"], then parsed.sql()
extract_final_query_ast(parsed) ==
    IF ~parsed.ok THEN [raised |-> "ParseError", value |-> EmptyTree]
    ELSE [raised |-> "", value |-> [parsed.tree EXCEPT !.with = <<>>]]

extract_last_select_node ==
    /\ pc = "extract_last_select_node"
    /\ LET got == extract_final_query_ast(parse_cleaned)
       IN  IF got.raised # ""
           THEN Raise("extract_last_select_node", got.raised, state)
           ELSE Continue("extract_last_select_node",
                         [state EXCEPT !.last_select = got.value])
    /\ UNCHANGED <<env, disk>>

----------------------------------------------------------------------------
(* nodes/extract_dates_node.py *)

Literal(this, is_string) == [this |-> this, is_string |-> is_string]

\* parsed.find_all(exp.Literal)
find_all_Literal(tree) ==
    tree.lits \o Concat([i \in 1..Len(tree.with) |-> tree.with[i].this.lits])

IsDigit(c) == c \in {"0", "1", "2", "3", "4", "5", "6", "7", "8", "9"}

DigitValue(c) ==
    CASE c = "0" -> 0 [] c = "1" -> 1 [] c = "2" -> 2 [] c = "3" -> 3 [] c = "4" -> 4
      [] c = "5" -> 5 [] c = "6" -> 6 [] c = "7" -> 7 [] c = "8" -> 8 [] c = "9" -> 9

RECURSIVE Number(_)
Number(s) == IF s = <<>> THEN 0 ELSE 10 * Number(SubSeq(s, 1, Len(s) - 1)) + DigitValue(s[Len(s)])

AllDigits(s) == \A i \in 1..Len(s) : IsDigit(s[i])

\* REGEX_ISO = ^\d{4}-\d{2}-\d{2}$
REGEX_ISO(v) ==
    /\ Len(v) = 10
    /\ v[5] = "-" /\ v[8] = "-"
    /\ AllDigits(SubSeq(v, 1, 4)) /\ AllDigits(SubSeq(v, 6, 7)) /\ AllDigits(SubSeq(v, 9, 10))

\* REGEX_INT = ^\d{8}$
REGEX_INT(v) == Len(v) = 8 /\ AllDigits(v)

IsLeap(y) == (y % 4 = 0 /\ y % 100 # 0) \/ y % 400 = 0

DaysIn(y, m) ==
    IF m \in {4, 6, 9, 11} THEN 30
    ELSE IF m = 2 THEN (IF IsLeap(y) THEN 29 ELSE 28)
    ELSE 31

\* datetime.strptime on the three numeric fields: <<y, m, d>>, or None when it
\* raises ValueError
None == <<>>

strptime(y, m, d) ==
    IF y >= 1 /\ m >= 1 /\ m <= 12 /\ d >= 1 /\ d <= DaysIn(y, m) THEN <<y, m, d>> ELSE None

\* lines 39-46 without the calendar check of strptime
normalize_date_ShapeOnly(value) ==
    IF REGEX_ISO(value)
    THEN <<Number(SubSeq(value, 1, 4)), Number(SubSeq(value, 6, 7)), Number(SubSeq(value, 9, 10))>>
    ELSE IF REGEX_INT(value)
    THEN <<Number(SubSeq(value, 1, 4)), Number(SubSeq(value, 5, 6)), Number(SubSeq(value, 7, 8))>>
    ELSE None

normalize_date(value) ==
    IF REGEX_ISO(value)
    THEN strptime(Number(SubSeq(value, 1, 4)), Number(SubSeq(value, 6, 7)),
                  Number(SubSeq(value, 9, 10)))
    ELSE IF REGEX_INT(value)
    THEN strptime(Number(SubSeq(value, 1, 4)), Number(SubSeq(value, 5, 6)),
                  Number(SubSeq(value, 7, 8)))
    ELSE None

\* the loop of lines 60-65: node.this is a str for numeric and for string literals
RECURSIVE CollectDates(_)
CollectDates(nodes) ==
    IF nodes = <<>> THEN <<>>
    ELSE LET value == Head(nodes).this
             dt == normalize_date(value)
         IN  (IF dt # None THEN <<[value |-> value, dt |-> dt]>> ELSE <<>>)
                 \o CollectDates(Tail(nodes))

\* lines 54-69 with the literals read although the parse raised
find_literals_in_sql_Unguarded(parsed) == CollectDates(find_all_Literal(parsed.tree))

\* find_literals_in_sql(sql_text); parsed is sqlglot's answer for sql_text, a
\* parse error is logged and leaves the list empty
find_literals_in_sql(parsed) ==
    IF ~parsed.ok THEN <<>> ELSE CollectDates(find_all_Literal(parsed.tree))

Count(seq, x) == Cardinality({i \in DOMAIN seq : seq[i] = x})

\* most_common(1) with the last inserted among equals
most_common_LastAmongEquals(date_objects) ==
    LET best == CHOOSE i \in DOMAIN date_objects :
                    /\ \A j \in DOMAIN date_objects :
                           Count(date_objects, date_objects[j]) <= Count(date_objects, date_objects[i])
                    /\ \A j \in (i + 1)..Len(date_objects) :
                           date_objects[j] # date_objects[i]
    IN  date_objects[best]

\* Counter(date_objects).most_common(1)[0][0]: the highest count, the first
\* inserted among equals
most_common(date_objects) ==
    LET best == CHOOSE i \in DOMAIN date_objects :
                    /\ \A j \in DOMAIN date_objects :
                           Count(date_objects, date_objects[j]) <= Count(date_objects, date_objects[i])
                    /\ \A j \in 1..(i - 1) :
                           Count(date_objects, date_objects[j]) < Count(date_objects, date_objects[i])
    IN  date_objects[best]

\* dict[key] = value: an existing key keeps its place and takes the new value
DictSet(dict, key, value) ==
    IF \E i \in DOMAIN dict : dict[i].key = key
    THEN [i \in DOMAIN dict |-> IF dict[i].key = key THEN [key |-> key, value |-> value] ELSE dict[i]]
    ELSE Append(dict, [key |-> key, value |-> value])

DictKeys(dict) == {dict[i].key : i \in DOMAIN dict}

ISO_PLACEHOLDER == <<"{", "t", "i", "m", "e", "_", "c", "o", "n", "f", "i", "g", ".", "f", "e", "c", "h", "a", "_", "c", "o", "r", "t", "e", "_", "i", "s", "o", "}">>
COMPACT_PLACEHOLDER == <<"{", "t", "i", "m", "e", "_", "c", "o", "n", "f", "i", "g", ".", "f", "e", "c", "h", "a", "_", "c", "o", "r", "t", "e", "}">>

Quoted(text) == <<"'">> \o text \o <<"'">>

\* line 114 with every candidate taken for the most common date
IsMostCommon_Any(dt, most_common_date) == TRUE

\* line 114: if dt == most_common_date
IsMostCommon(dt, most_common_date) == dt = most_common_date

\* line 117 with no literal taken for a hyphenated one
HasHyphen_Never(original_str) == FALSE

\* line 117: if "-" in original_str
HasHyphen(original_str) == Contains(original_str, <<"-">>)

\* lines 113-125
RECURSIVE BuildReplacements(_, _, _)
BuildReplacements(candidates, most_common_date, replacements) ==
    IF candidates = <<>> THEN replacements
    ELSE LET original_str == Head(candidates).value
             next ==
                 IF IsMostCommon(Head(candidates).dt, most_common_date)
                 THEN IF HasHyphen(original_str)
                      THEN DictSet(DictSet(replacements, Quoted(original_str), ISO_PLACEHOLDER),
                                   original_str, ISO_PLACEHOLDER)
                      ELSE DictSet(replacements, original_str, COMPACT_PLACEHOLDER)
                 ELSE replacements
         IN  BuildReplacements(Tail(candidates), most_common_date, next)

\* lines 88-97: the CTE bodies in list order, then the main query
AllCandidates(ctes, main_query, reparse_main) ==
    Concat([i \in 1..Len(ctes) |-> find_literals_in_sql([ok |-> TRUE, tree |-> ctes[i].inner_sql])])
        \o find_literals_in_sql([ok |-> reparse_main, tree |-> main_query])

\* lines 99-129: the replacement map for the candidates found
DateReplacements(all_candidates) ==
    IF all_candidates = <<>> THEN <<>>
    ELSE BuildReplacements(all_candidates,
                           most_common([i \in DOMAIN all_candidates |-> all_candidates[i].dt]),
                           <<>>)

\* extract_dates_node; every CTE body was parsed back by extract_ctes_node, the
\* main query is parsed back here for the first time (env.main_parses)
extract_dates_node ==
    /\ pc = "extract_dates_node"
    /\ Continue("extract_dates_node",
                [state EXCEPT !.date_replacements =
                     DateReplacements(AllCandidates(state.ctes, state.last_select,
                                                    env.main_parses))])
    /\ UNCHANGED <<env, disk>>

----------------------------------------------------------------------------
(* nodes/convert_syntax_node.py *)

\* clean_table_reference(node, known_tables): the node after the call
clean_table_reference(node, known_tables) ==
    IF \E i \in DOMAIN known_tables :
           /\ Lower(known_tables[i].table) = Lower(node.name)
           /\ Lower(known_tables[i].database) = Lower(node.db)
    THEN [node EXCEPT !.db = NoText, !.catalog = NoText]
    ELSE node

\* a table reference as the serializer writes it
QualifiedName(node) ==
    (IF node.catalog # NoText THEN node.catalog \o <<".">> ELSE NoText)
        \o (IF node.db # NoText THEN node.db \o <<".">> ELSE NoText)
        \o node.name

LiteralText(lit) == IF lit.is_string THEN Quoted(lit.this) ELSE lit.this

\* expression.sql(dialect=TARGET_DIALECT, pretty=True) of a query without WITH:
\* one line for the select list (S), one per table reference (F) and one per
\* literal (W)
PrettySql(tree) ==
    <<"S">>
        \o Concat([i \in 1..Len(tree.refs) |-> <<"\n", "F", " ">> \o QualifiedName(tree.refs[i])])
        \o Concat([i \in 1..Len(tree.lits) |-> <<"\n", "W", " ">> \o LiteralText(tree.lits[i])])

\* lines 70-71
RECURSIVE InjectTables(_, _)
InjectTables(converted_sql, tables) ==
    IF tables = <<>> THEN converted_sql
    ELSE InjectTables(Replace(converted_sql, Head(tables).table,
                              <<"{">> \o Head(tables).python_var \o <<"}">>),
                      Tail(tables))

\* apply_date_replacements(sql_text, replacements)
RECURSIVE apply_date_replacements(_, _)
apply_date_replacements(sql_text, replacements) ==
    IF replacements = <<>> THEN sql_text
    ELSE apply_date_replacements(Replace(sql_text, Head(replacements).key, Head(replacements).value),
                                 Tail(replacements))

Step(op, given, gives) == [op |-> op, given |-> given, gives |-> gives]

\* lines 63-64: clean_table_reference on every table node of the expression
CleanTables(tree, tables) ==
    [tree EXCEPT !.refs = [i \in DOMAIN tree.refs |-> clean_table_reference(tree.refs[i], tables)]]

\* lines 60-75 with the date replacements made on the text before it is parsed
ConversionSteps_DatesFirst(parsed, tables, date_replacements) ==
    LET sql_text == PrettySql(parsed.tree)
        dated == apply_date_replacements(sql_text, date_replacements)
        expression == CleanTables(parsed.tree, tables)
        serialized == apply_date_replacements(PrettySql(expression), date_replacements)
    IN  <<Step("apply_date_replacements", sql_text, dated),
          Step("parse_one", dated, dated),
          Step("clean_table_reference", dated, serialized),
          Step("sql", serialized, serialized),
          Step("replace", serialized, InjectTables(serialized, tables))>>

\* the steps of convert_syntax on a text sqlglot reads, lines 60-75, in the order
\* they are made, each with the text it is given and the text it gives; an
\* expression is shown as the text it serializes to
ConversionSteps(parsed, tables, date_replacements) ==
    LET sql_text == PrettySql(parsed.tree)
        expression == CleanTables(parsed.tree, tables)
        serialized == PrettySql(expression)
        injected == InjectTables(serialized, tables)
    IN  <<Step("parse_one", sql_text, sql_text),
          Step("clean_table_reference", sql_text, serialized),
          Step("sql", serialized, serialized),
          Step("replace", serialized, injected),
          Step("apply_date_replacements", injected,
               apply_date_replacements(injected, date_replacements))>>

\* convert_syntax(sql_text, tables, date_replacements); parsed is sqlglot's
\* answer for sql_text read in SOURCE_DIALECT
convert_syntax(parsed, tables, date_replacements) ==
    IF ~parsed.ok THEN [raised |-> "ParseError", value |-> NoText]
    ELSE LET steps == ConversionSteps(parsed, tables, date_replacements)
         IN  [raised |-> "", value |-> steps[Len(steps)].gives]

LOCAL_ISO == <<"'", "{", "f", "e", "c", "h", "a", "_", "c", "o", "r", "t", "e", "_", "i", "s", "o", "}", "'">>
LOCAL_COMPACT == <<"{", "f", "e", "c", "h", "a", "_", "c", "o", "r", "t", "e", "}">>

\* lines 88-109 with the ISO cutoff parameter added whatever the text holds
configure_method_params_AlwaysIso(sql_text) ==
    [sql       |-> Replace(sql_text, ISO_PLACEHOLDER, LOCAL_ISO),
     args_def  |-> <<"self", "fecha_corte_iso: str">>,
     args_call |-> <<"self.time_config.fecha_corte_iso">>]

\* lines 88-109 with the compact placeholder looked for first
configure_method_params_CompactFirst(sql_text) ==
    IF Contains(sql_text, COMPACT_PLACEHOLDER)
    THEN [sql       |-> Replace(sql_text, COMPACT_PLACEHOLDER, LOCAL_COMPACT),
          args_def  |-> <<"self", "fecha_corte: str">>,
          args_call |-> <<"self.time_config.fecha_corte">>]
    ELSE IF Contains(sql_text, ISO_PLACEHOLDER)
    THEN [sql       |-> Replace(sql_text, ISO_PLACEHOLDER, LOCAL_ISO),
          args_def  |-> <<"self", "fecha_corte_iso: str">>,
          args_call |-> <<"self.time_config.fecha_corte_iso">>]
    ELSE [sql |-> sql_text, args_def |-> <<"self">>, args_call |-> <<>>]

\* configure_method_params(sql_text): (adjusted_sql, args_def, args_call), the
\* two lists before ", ".join
configure_method_params(sql_text) ==
    IF Contains(sql_text, ISO_PLACEHOLDER)
    THEN [sql       |-> Replace(sql_text, ISO_PLACEHOLDER, LOCAL_ISO),
          args_def  |-> <<"self", "fecha_corte_iso: str">>,
          args_call |-> <<"self.time_config.fecha_corte_iso">>]
    ELSE IF Contains(sql_text, COMPACT_PLACEHOLDER)
    THEN [sql       |-> Replace(sql_text, COMPACT_PLACEHOLDER, LOCAL_COMPACT),
          args_def  |-> <<"self", "fecha_corte: str">>,
          args_call |-> <<"self.time_config.fecha_corte">>]
    ELSE [sql |-> sql_text, args_def |-> <<"self">>, args_call |-> <<>>]

\* f'{tb.python_var} = self._get_table("{tb.table}")' for each table
TableBindings(tables) ==
    [i \in DOMAIN tables |-> [var |-> tables[i].python_var, arg |-> tables[i].table]]

INDENT == <<"\n", " ", " ", " ", " ", " ", " ", " ", " ">>

\* lines 130-151 with the converted text stored over the body the CTE was
\* extracted with
ConvertedCte_ClearsInner(cte, temp_sql) ==
    LET final == configure_method_params(temp_sql)
    IN  [cte EXCEPT
            !.inner_sql = EmptyTree,
            !.new_sql = final.sql,
            !.python_method = [name       |-> cte.name,
                              args_def   |-> final.args_def,
                              table_vars |-> TableBindings(cte.tables),
                              body       |-> Replace(final.sql, <<"\n">>, INDENT)],
            !.python_create = [method    |-> cte.name,
                               args_call |-> final.args_call,
                               view      |-> cte.name]]

\* lines 130-151 for one CTE whose conversion gave temp_sql
ConvertedCte(cte, temp_sql) ==
    LET final == configure_method_params(temp_sql)
    IN  [cte EXCEPT
            !.new_sql = final.sql,
            !.python_method = [name       |-> cte.name,
                              args_def   |-> final.args_def,
                              table_vars |-> TableBindings(cte.tables),
                              body       |-> Replace(final.sql, <<"\n">>, INDENT)],
            !.python_create = [method    |-> cte.name,
                               args_call |-> final.args_call,
                               view      |-> cte.name]]

\* the loop of lines 125-153 over the first n CTEs
ConvertCtes(ctes, n, date_replacements) ==
    [i \in DOMAIN ctes |->
        IF i <= n
        THEN ConvertedCte(ctes[i],
                          convert_syntax([ok |-> TRUE, tree |-> ctes[i].inner_sql],
                                         ctes[i].tables, date_replacements).value)
        ELSE ctes[i]]

\* convert_syntax_node; bad is the first fragment sqlglot cannot read in
\* SOURCE_DIALECT: a CTE body, the main query (Len(ctes) + 1), or none (0).  The
\* CTE objects converted before a failure keep their new fields.
convert_syntax_node ==
    /\ pc = "convert_syntax_node"
    /\ \E bad \in 0..(Len(state.ctes) + 1) :
          LET n == Len(state.ctes)
              done == IF bad = 0 THEN n ELSE bad - 1
              ctes == ConvertCtes(state.ctes, done, state.date_replacements)
              main == convert_syntax([ok |-> bad = 0, tree |-> state.last_select],
                                     state.tables, state.date_replacements)
          IN  IF bad # 0
              THEN Raise("convert_syntax_node", "ParseError", [state EXCEPT !.ctes = ctes])
              ELSE Continue("convert_syntax_node",
                            [state EXCEPT !.ctes = ctes,
                                          !.new_last_select =
                                              configure_method_params(main.value).sql])
    /\ UNCHANGED <<env, disk>>

----------------------------------------------------------------------------
(* nodes/generate_code_node.py *)

Piece(kind, text, value) == [kind |-> kind, text |-> text, value |-> value]

\* the template file at TEMPLATE_PATH: job code around the five tag markers, each
\* once
GlueTemplate ==
    <<Piece("text", "imports", <<>>),
      Piece("tag", "#SETI_TAG_LISTA_TABLAS", <<>>),
      Piece("text", "class SQLQueryRepository", <<>>),
      Piece("tag", "#SETI_TAG_METHODS_QUERY_REPLACE", <<>>),
      Piece("text", "class ViewCreator", <<>>),
      Piece("tag", "#SETI_TAG_CREATE_VIEWS", <<>>),
      Piece("text", "def get_final_query", <<>>),
      Piece("tag", "#SETI_TAG_FINAL_TABLES", <<>>),
      Piece("text", "return f", <<>>),
      Piece("tag", "#SETI_TAG_F_STRING_FINAL_QUERY", <<>>),
      Piece("text", "main", <<>>)>>

\* what stands in a text where replace put the value of a tag
Inserted(tag) ==
    CASE tag = "#SETI_TAG_LISTA_TABLAS" -> "<list_table>"
      [] tag = "#SETI_TAG_METHODS_QUERY_REPLACE" -> "<list_cte_methods>"
      [] tag = "#SETI_TAG_CREATE_VIEWS" -> "<list_cte_create>"
      [] tag = "#SETI_TAG_FINAL_TABLES" -> "<main_tables>"
      [] OTHER -> "<main_select>"

\* text.replace(tag, value) on a text that holds a marker as one element
ReplaceToken(text, tag) ==
    [k \in DOMAIN text |-> IF text[k] = tag THEN Inserted(tag) ELSE text[k]]

\* replace(tag, value) on a value an earlier replace put into the template: the
\* method bodies and the main query are the values that hold text of the script
ReplaceInValue(piece, tag) ==
    IF piece.text = "#SETI_TAG_METHODS_QUERY_REPLACE"
    THEN [m \in DOMAIN piece.value |->
             [piece.value[m] EXCEPT !.body = ReplaceToken(@, tag)]]
    ELSE IF piece.text = "#SETI_TAG_F_STRING_FINAL_QUERY"
    THEN ReplaceToken(piece.value, tag)
    ELSE piece.value

\* code_template.replace(tag, value) on the template's pieces: the tag of the
\* template and the marker inside the values already there are replaced, the
\* value that is put in is not looked at again
ReplaceTag(code_template, tag, value) ==
    [i \in DOMAIN code_template |->
        IF code_template[i].kind = "tag" /\ code_template[i].text = tag
        THEN Piece("value", tag, value)
        ELSE IF code_template[i].kind = "value"
        THEN Piece("value", code_template[i].text, ReplaceInValue(code_template[i], tag))
        ELSE code_template[i]]

\* lines 60-70: the substituted template
GeneratedCode(code_template, st) ==
    LET main_tables == TableBindings(st.tables)
        main_select == st.new_last_select
        list_table == Join([i \in DOMAIN st.tables |-> st.tables[i].full_name], <<",">>)
        list_cte_methods == [i \in DOMAIN st.ctes |-> st.ctes[i].python_method]
        list_cte_create == [i \in DOMAIN st.ctes |-> st.ctes[i].python_create]
        t1 == ReplaceTag(code_template, "#SETI_TAG_LISTA_TABLAS", list_table)
        t2 == ReplaceTag(t1, "#SETI_TAG_METHODS_QUERY_REPLACE", list_cte_methods)
        t3 == ReplaceTag(t2, "#SETI_TAG_CREATE_VIEWS", list_cte_create)
        t4 == ReplaceTag(t3, "#SETI_TAG_FINAL_TABLES", main_tables)
    IN  ReplaceTag(t4, "#SETI_TAG_F_STRING_FINAL_QUERY", main_select)

\* lines 78-85: open(output_path, "w") truncates the file, then file.write and
\* the close put the first `written` pieces on disk
WriteResult(before, code, opened, written) ==
    IF ~opened THEN before ELSE [exists |-> TRUE, content |-> SubSeq(code, 1, written)]

\* generate_code_node.  The surroundings choose whether the template is there
\* and readable, whether the output file can be opened and how much of the text
\* reaches it before a write error.
generate_code_node ==
    /\ pc = "generate_code_node"
    /\ \E template \in {"ok", "missing", "unreadable"}, opened \in BOOLEAN,
          written \in 0..Len(GlueTemplate) :
          /\ template # "ok" => (opened /\ written = Len(GlueTemplate))
          /\ ~opened => written = 0
          /\ IF template = "missing"
             THEN /\ Raise("generate_code_node", "FileNotFoundError", state)
                  /\ disk' = disk
             ELSE IF template = "unreadable"
             THEN /\ Raise("generate_code_node", "IOError", state)
                  /\ disk' = disk
             ELSE LET code == GeneratedCode(GlueTemplate, state)
                  IN  /\ disk' = WriteResult(disk, code, opened, written)
                      /\ IF opened /\ written = Len(code)
                         THEN Continue("generate_code_node", state)
                         ELSE Raise("generate_code_node", "IOError", state)
    /\ UNCHANGED env

----------------------------------------------------------------------------
(* Inputs *)

NoFile == [exists |-> FALSE, content |-> <<>>]
OldFile == [exists |-> TRUE, content |-> <<Piece("text", "previous run", <<>>)>>]

NoParse == [ok |-> FALSE, tree |-> EmptyTree]

\* CTE names c0, c1, ... by declaration index
CteName(i) == <<"c", <<"0", "1", "2", "3", "4", "5", "6", "7", "8", "9">>[i + 1]>>

\* raw files of the pipeline runs: empty, blank, and a script with a comment
PipeTexts == {<<>>, <<" ">>, <<"s", " ", " ", "-", "-", "c">>}

\* query bodies of the pipeline runs: a managed table, an unmanaged table or a
\* reference to the first CTE, with or without a date literal
PipeFragments ==
    {Select(refs, lits) :
        refs \in {<<TableNode(NoText, <<"a">>, <<"b">>)>>,
                  <<TableNode(NoText, <<"y">>, <<"v">>)>>,
                  <<TableNode(NoText, NoText, CteName(0))>>},
        lits \in {<<>>, <<Literal(<<"2", "0", "2", "5", "-", "0", "1", "-", "0", "1">>, TRUE)>>}}

\* scripts WITH c0 AS (...), ..., c(n-1) AS (...) SELECT ... for n <= MaxCtes
PipeScripts ==
    {[with |-> [i \in DOMAIN bodies |-> [alias |-> CteName(i - 1), this |-> bodies[i]]],
      refs |-> main.refs,
      lits |-> main.lits] :
        bodies \in SeqsUpTo(PipeFragments, MaxCtes), main \in PipeFragments}

PipeParses == {NoParse} \cup {[ok |-> TRUE, tree |-> t] : t \in PipeScripts}

\* Runs of the pipeline.  The command surface always passes a path; sqlglot
\* raises on an empty text; a file that is not read has no content.
PipeEnvs ==
    {e \in [entry : {"cli", "graph"}, sql_file_path : {"", "in.sql"},
            file : {"ok", "missing", "unreadable"}, raw : PipeTexts,
            parsed : PipeParses, main_parses : BOOLEAN, disk0 : {NoFile, OldFile}] :
        /\ e.entry = "cli" => e.sql_file_path = "in.sql"
        /\ e.sql_file_path = "" => e.file = "missing"
        /\ e.file # "ok" => (e.raw = <<>> /\ e.parsed = NoParse)
        /\ clean_sql(e.raw) = <<>> => e.parsed = NoParse
        /\ ~e.parsed.ok => ~e.main_parses}

CleanChars == {"-", "/", "*", " ", "\n", "s"}

Tables == {<<"b">>, <<"B">>, <<"u">>}

\* schema-qualified references, bare references, and one with a catalog
WideNodes ==
    {TableNode(NoText, s, t) : s \in {<<"a">>, <<"x">>}, t \in Tables}
        \cup {TableNode(NoText, <<"A">>, <<"b">>), TableNode(NoText, NoText, <<"b">>),
              TableNode(<<"k">>, <<"a">>, <<"u">>)}

Env(entry, path, file, raw, parsed, main_parses, disk0) ==
    [entry |-> entry, sql_file_path |-> path, file |-> file, raw |-> raw,
     parsed |-> parsed, main_parses |-> main_parses, disk0 |-> disk0]

Start(e) ==
    /\ env = e
    /\ pc = IF e.entry = "cli" THEN "cli" ELSE EntryPoint
    /\ state = create_initial_state(e.sql_file_path, "biz", "out")
    /\ disk = e.disk0
    /\ exitCode = -1
    /\ error = ""
    /\ executed = <<>>

----------------------------------------------------------------------------
(* The pipeline: one run of the graph, from the command surface or invoked  *)
(* directly                                                                 *)

Init == \E e \in PipeEnvs : Start(e)

Next ==
    \/ cli
    \/ parse_sql_node
    \/ extract_tables_node
    \/ extract_ctes_node
    \/ extract_last_select_node
    \/ extract_dates_node
    \/ convert_syntax_node
    \/ generate_code_node

Spec == Init /\ [][Next]_vars

----------------------------------------------------------------------------
(* The Preprocessor on every raw text up to MaxLen characters *)

InitClean ==
    \E raw \in SeqsUpTo(CleanChars, MaxLen) :
        Start(Env("graph", "in.sql", "ok", raw, NoParse, FALSE, NoFile))

NextClean == parse_sql_node

SpecClean == InitClean /\ [][NextClean]_vars

----------------------------------------------------------------------------
(* The Table Extractor on every fragment of up to MaxRefs table references *)

InitTables ==
    \E refs \in SeqsUpTo(WideNodes, MaxRefs) :
        Start(Env("graph", "in.sql", "ok", <<"s">>,
                  [ok |-> TRUE, tree |-> Select(refs, <<>>)], TRUE, NoFile))

NextTables == parse_sql_node \/ extract_tables_node

SpecTables == InitTables /\ [][NextTables]_vars

----------------------------------------------------------------------------
(* Date inference and conversion on scripts of up to two CTEs whose bodies  *)
(* hold at most one date literal and whose main body holds up to MaxLits    *)
(* literals                                                                 *)

Jan1Iso == <<"2", "0", "2", "5", "-", "0", "1", "-", "0", "1">>
Jan1Compact == <<"2", "0", "2", "5", "0", "1", "0", "1">>
Jun1Iso == <<"2", "0", "2", "5", "-", "0", "6", "-", "0", "1">>
NoSuchDay == <<"2", "0", "2", "5", "-", "1", "3", "-", "4", "5">>
WrongShape == <<"2", "0", "2", "5", "-", "1", "-", "1">>

\* string literals, and the number 20250101
DateLiterals ==
    {Literal(Jan1Iso, TRUE), Literal(Jan1Compact, FALSE), Literal(Jun1Iso, TRUE),
     Literal(NoSuchDay, TRUE), Literal(WrongShape, TRUE)}

DateCteBodies ==
    {Select(<<TableNode(NoText, <<"a">>, <<"b">>)>>, lits) :
        lits \in {<<>>, <<Literal(Jan1Iso, TRUE)>>, <<Literal(Jun1Iso, TRUE)>>}}

DateMainBodies ==
    {Select(<<TableNode(NoText, <<"y">>, <<"v">>)>>, lits) : lits \in SeqsUpTo(DateLiterals, MaxLits)}

InitDates ==
    \E bodies \in SeqsUpTo(DateCteBodies, 2), main \in DateMainBodies, main_parses \in BOOLEAN :
        Start(Env("graph", "in.sql", "ok", <<"s">>,
                  [ok   |-> TRUE,
                   tree |-> [with |-> [i \in DOMAIN bodies |->
                                          [alias |-> CteName(i - 1), this |-> bodies[i]]],
                             refs |-> main.refs,
                             lits |-> main.lits]],
                  main_parses, NoFile))

NextDates ==
    \/ parse_sql_node
    \/ extract_tables_node
    \/ extract_ctes_node
    \/ extract_last_select_node
    \/ extract_dates_node
    \/ convert_syntax_node

SpecDates == InitDates /\ [][NextDates]_vars

----------------------------------------------------------------------------
(* Properties *)

IsPrefix(s, t) == Len(s) <= Len(t) /\ SubSeq(t, 1, Len(s)) = s

\* the seven stages in the order the specification gives them
StageOrder ==
    <<"parse_sql", "extract_tables_node", "extract_ctes_node", "extract_last_select_node",
      "extract_dates_node", "convert_syntax_node", "generate_code_node">>

Ran(node) == \E i \in DOMAIN executed : executed[i] = node

\* the node `node` ran and returned
Returned(node) ==
    \E i \in DOMAIN executed : executed[i] = node /\ (i < Len(executed) \/ pc # "Failed")

\* C1: the stages run in the given order, each at most once and none skipped:
\* the nodes entered so far are always an initial part of the order, the graph
\* stands at the next one, and a run that ends without failure has entered
\* all seven.
C1_StagesRunOnceInOrder ==
    /\ IsPrefix(executed, StageOrder)
    /\ pc \notin {"cli", "END", "Failed"} => pc = StageOrder[Len(executed) + 1]
    /\ pc = "END" => executed = StageOrder

C1_Witness == pc = "END" /\ executed = StageOrder /\ error = ""

\* C2: once a stage has raised, the run is at Failed, no node can run any more,
\* a command-surface run has a non-zero exit status, and the output path is
\* as it was before the run.
C2_FailureLeavesNoArtifact ==
    error # "" =>
        /\ pc = "Failed"
        /\ ~ENABLED Next
        /\ env.entry = "cli" => exitCode > 0
        /\ disk = env.disk0

\* C3: the output path holds either what it held before the write or the
\* complete substituted template, and a failed write ends the run with IOError.
C3_WriteAllOrNothing ==
    /\ \/ disk = env.disk0
       \/ disk = [exists |-> TRUE, content |-> GeneratedCode(GlueTemplate, state)]
    /\ (pc = "Failed" /\ disk # env.disk0) => error = "IOError"

\* C4: cleaning the cleaned text again changes nothing.
C4_CleanIsIdempotent ==
    Returned("parse_sql") => clean_sql(state.cleaned_sql) = state.cleaned_sql

TableKey(t) == <<Lower(t.database), Lower(t.table)>>
NodeKey(node) == <<Lower(node.db), Lower(node.name)>>

\* the references the Table Extractor was given in this run
GivenRefs == find_all_Table(env.parsed.tree)

\* C5: no two entries of the extracted list have the same lower-case
\* (schema, name).
C5_NoTwoEntriesShareKey ==
    \A i, j \in DOMAIN state.tables :
        i # j => TableKey(state.tables[i]) # TableKey(state.tables[j])

\* C6: every schema-qualified reference has an entry for its (schema, table)
\* pair, built from the first reference to that pair: a reference is dropped
\* only when its own pair was seen before.
C6_DroppedOnlyWhenPairSeen ==
    Returned("extract_tables_node") =>
        \A k \in DOMAIN GivenRefs :
            GivenRefs[k].db # NoText =>
                LET first == CHOOSE f \in DOMAIN GivenRefs :
                                 /\ NodeKey(GivenRefs[f]) = NodeKey(GivenRefs[k])
                                 /\ \A g \in 1..(f - 1) :
                                        NodeKey(GivenRefs[g]) # NodeKey(GivenRefs[k])
                IN  \E i \in DOMAIN state.tables :
                        state.tables[i] = TableSourceInfo(GivenRefs[first])

\* C7: an entry whose schema.table equals a registry key up to letter case has
\* that key's storage format and the known-managed catalog kind; any other
\* entry has format "unknown" and the generic catalog kind.
C7_RegistryLookupIgnoresCase ==
    \A i \in DOMAIN state.tables :
        LET t == state.tables[i]
            keys == {k \in DOMAIN TABLE_CONFIG : Lower(k) = Lower(t.full_name)}
        IN  IF keys # {}
            THEN t.catalog = "glue_catalog" /\ \E k \in keys : t.table_type = TABLE_CONFIG[k]
            ELSE t.catalog = "spark_catalog" /\ t.table_type = "unknown"

\* C8: a reference without a schema qualifier, wherever it stands in the
\* fragment, yields no entry: every entry has a schema and comes from a
\* schema-qualified reference of the fragment, and there are no more entries
\* than schema-qualified references.
C8_BareReferencesYieldNoEntry ==
    /\ \A i \in DOMAIN state.tables :
           /\ state.tables[i].database # NoText
           /\ \E k \in DOMAIN GivenRefs :
                  /\ GivenRefs[k].db # NoText
                  /\ GivenRefs[k].db = state.tables[i].database
                  /\ GivenRefs[k].name = state.tables[i].table
    /\ Len(state.tables) <= Cardinality({k \in DOMAIN GivenRefs : GivenRefs[k].db # NoText})

C8_Witness ==
    /\ Returned("extract_tables_node")
    /\ Len(GivenRefs) = 3
    /\ GivenRefs[2].db = NoText
    /\ Len(state.tables) = 2

\* C9: when sqlglot rejects the text given to the Table Extractor, the
\* TableExtraction stage ends the run: Failed with the extractor's error, the
\* tables field still the initial empty list, no later node entered.
C9_InvalidSqlFailsTableExtraction ==
    (Ran("extract_tables_node") /\ ~env.parsed.ok) =>
        /\ pc = "Failed"
        /\ error = "ValueError"
        /\ state.tables = create_initial_state("", "", "").tables
        /\ executed = <<"parse_sql", "extract_tables_node">>

C9_Witness ==
    /\ pc = "Failed"
    /\ executed = <<"parse_sql", "extract_tables_node">>
    /\ state.cleaned_sql # NoText
    /\ ~env.parsed.ok

\* the value substituted for a tag in the written file
Substituted(content, tag) ==
    content[CHOOSE i \in DOMAIN content : content[i].text = tag].value

\* C10: the CTE list has one definition per declared CTE, in declaration
\* order, with position the zero-based declaration index; the written file
\* has the generated functions and the generated invocations in that order.
C10_CteOrderKept ==
    LET declared == env.parsed.tree.with
    IN  /\ Returned("extract_ctes_node") =>
               /\ Len(state.ctes) = Len(declared)
               /\ \A i \in DOMAIN declared :
                      /\ state.ctes[i].name = declared[i].alias
                      /\ state.ctes[i].position = i - 1
        /\ pc = "END" =>
               LET methods == Substituted(disk.content, "#SETI_TAG_METHODS_QUERY_REPLACE")
                   creates == Substituted(disk.content, "#SETI_TAG_CREATE_VIEWS")
               IN  /\ Len(methods) = Len(declared) /\ Len(creates) = Len(declared)
                   /\ \A i \in DOMAIN declared :
                          /\ methods[i].name = declared[i].alias
                          /\ creates[i].method = declared[i].alias
                          /\ creates[i].view = declared[i].alias

C10_Witness ==
    /\ pc = "END"
    /\ Len(env.parsed.tree.with) >= 2
    /\ Len(Substituted(disk.content, "#SETI_TAG_CREATE_VIEWS")) >= 2

\* the references of a query body that carry a schema
QualifiedRefs(tree) == {tree.refs[k] : k \in {j \in DOMAIN tree.refs : tree.refs[j].db # NoText}}

\* C11: the tables of every extracted CTE are what the Table Extractor gives
\* for that CTE's body alone: each of them is a schema-qualified reference of
\* the CTE's own body, whatever the other CTEs and the main body reference.
C11_CteTablesFromOwnBody ==
    Returned("extract_ctes_node") =>
        \A i \in DOMAIN state.ctes :
            LET body == env.parsed.tree.with[i].this
            IN  /\ state.ctes[i].tables = extract_tables_ast([ok |-> TRUE, tree |-> body]).value
                /\ \A t \in DOMAIN state.ctes[i].tables :
                       \E node \in QualifiedRefs(body) :
                           /\ node.db = state.ctes[i].tables[t].database
                           /\ node.name = state.ctes[i].tables[t].table
                /\ \A node \in QualifiedRefs(body) :
                       \E t \in DOMAIN state.ctes[i].tables :
                           state.ctes[i].tables[t].table = node.name

C11_Witness ==
    /\ Returned("extract_ctes_node")
    /\ Len(state.ctes) = 2
    /\ Len(state.ctes[1].tables) = 1 /\ state.ctes[1].tables[1].table = <<"b">>
    /\ Len(state.ctes[2].tables) = 1 /\ state.ctes[2].tables[1].table = <<"v">>
    /\ Len(state.tables) = 2

\* C12: what the Main-Body Extractor returns is the script's statement without
\* its WITH clause: no CTE definition is left, the terminal query is the
\* script's, and a script without WITH comes back as the same statement.
C12_MainBodyIsScriptWithoutWith ==
    Returned("extract_last_select_node") =>
        /\ find_all_CTE(state.last_select) = <<>>
        /\ state.last_select.refs = env.parsed.tree.refs
        /\ state.last_select.lits = env.parsed.tree.lits
        /\ env.parsed.tree.with = <<>> => state.last_select = env.parsed.tree

C12_Witness ==
    /\ Returned("extract_last_select_node")
    /\ Len(env.parsed.tree.with) = 2
    /\ state.last_select.refs # <<>>
    /\ state.last_select # env.parsed.tree

----------------------------------------------------------------------------
(* Properties of date inference, over the literals of the date scripts *)

\* the calendar day a literal text denotes, "" when it denotes none
DayOf(text) ==
    IF text \in {Jan1Iso, Jan1Compact} THEN "2025-01-01"
    ELSE IF text = Jun1Iso THEN "2025-06-01"
    ELSE ""

CteLiterals == Concat([i \in DOMAIN env.parsed.tree.with |-> env.parsed.tree.with[i].this.lits])
MainLiterals == env.parsed.tree.lits

\* the literals date inference gets to see, in scan order: the CTE bodies in
\* extraction order, then the main body when sqlglot parses it back
Scanned == CteLiterals \o (IF env.main_parses THEN MainLiterals ELSE <<>>)

SeenDays(lits) == {DayOf(lits[i].this) : i \in DOMAIN lits} \ {""}

Occurrences(lits, day) == Cardinality({i \in DOMAIN lits : DayOf(lits[i].this) = day})

FirstSeen(lits, day) ==
    CHOOSE i \in DOMAIN lits :
        DayOf(lits[i].this) = day /\ \A j \in 1..(i - 1) : DayOf(lits[j].this) # day

\* the day with the most occurrences, the first seen among equals
Dominant(lits) ==
    CHOOSE d \in SeenDays(lits) :
        \A e \in SeenDays(lits) \ {d} :
            \/ Occurrences(lits, d) > Occurrences(lits, e)
            \/ Occurrences(lits, d) = Occurrences(lits, e) /\ FirstSeen(lits, d) < FirstSeen(lits, e)

Unquoted(key) == IF Head(key) = "'" THEN SubSeq(key, 2, Len(key) - 1) ELSE key

MapKeys == DictKeys(state.date_replacements)

\* C13: DateInference never fails and hands over to SyntaxConversion; when the
\* main body does not parse back it contributes nothing (every key of the map is
\* a form of a CTE-body literal) and the CTE bodies are scanned all the same (a
\* recognized literal in one of them gives a non-empty map).
C13_DateInferenceIsBestEffort ==
    /\ Ran("extract_dates_node") => Returned("extract_dates_node")
    /\ (Ran("extract_dates_node") /\ Len(executed) = 5) => pc = "convert_syntax_node"
    /\ (Returned("extract_dates_node") /\ ~env.main_parses) =>
           /\ \A key \in MapKeys :
                  \E i \in DOMAIN CteLiterals : CteLiterals[i].this = Unquoted(key)
           /\ SeenDays(CteLiterals) # {} => MapKeys # {}

C13_Witness ==
    /\ pc = "convert_syntax_node"
    /\ ~env.main_parses
    /\ Occurrences(MainLiterals, "2025-06-01") = 2
    /\ Occurrences(CteLiterals, "2025-01-01") = 1
    /\ Occurrences(CteLiterals, "2025-06-01") = 0
    /\ MapKeys = {Quoted(Jan1Iso), Jan1Iso}

\* C14: when the scan recognizes a date literal, the map is built for the day
\* with the most occurrences over all scanned fragments, ISO and compact
\* spellings counted together, and for the first such day in scan order when
\* several days share the highest count: every key is a form of that day.
C14_DominantIsMostFrequentFirstSeen ==
    (Returned("extract_dates_node") /\ SeenDays(Scanned) # {}) =>
        /\ MapKeys # {}
        /\ \A key \in MapKeys : DayOf(Unquoted(key)) = Dominant(Scanned)

C14_Witness ==
    /\ Returned("extract_dates_node")
    /\ env.main_parses
    /\ CteLiterals = <<Literal(Jun1Iso, TRUE)>>
    /\ MainLiterals = <<Literal(Jan1Iso, TRUE), Literal(Jan1Compact, FALSE), Literal(Jun1Iso, TRUE)>>
    /\ MapKeys = {Quoted(Jun1Iso), Jun1Iso}

\* the textual forms the map holds for a literal text: quoted and bare for a
\* hyphenated text, bare for an 8-digit text
KeyForms(text) == IF text[5] = "-" THEN {Quoted(text), text} ELSE {text}

\* C15: the keys of the map are exactly the textual forms of the scanned
\* literals of the one dominant day; no form of another day is a key.  For
\* '2025-01-01' three times, '2025-06-01' once and 20250101 once the keys are
\* '2025-01-01' quoted and bare and 20250101.
C15_KeysAreFormsOfDominantOnly ==
    Returned("extract_dates_node") =>
        /\ MapKeys = UNION {KeyForms(Scanned[i].this) :
                               i \in {j \in DOMAIN Scanned :
                                         /\ DayOf(Scanned[j].this) # ""
                                         /\ DayOf(Scanned[j].this) = Dominant(Scanned)}}
        /\ \A i \in DOMAIN Scanned :
               (SeenDays(Scanned) # {} /\ DayOf(Scanned[i].this) # Dominant(Scanned)) =>
                   /\ Scanned[i].this \notin MapKeys
                   /\ Quoted(Scanned[i].this) \notin MapKeys

C15_Witness ==
    /\ Returned("extract_dates_node")
    /\ env.main_parses
    /\ Occurrences(Scanned, "2025-01-01") = 4
    /\ Cardinality({i \in DOMAIN Scanned : Scanned[i] = Literal(Jan1Iso, TRUE)}) = 3
    /\ Cardinality({i \in DOMAIN Scanned : Scanned[i] = Literal(Jan1Compact, FALSE)}) = 1
    /\ Occurrences(Scanned, "2025-06-01") = 1
    /\ MapKeys = {Quoted(Jan1Iso), Jan1Iso, Jan1Compact}

MapValue(key) ==
    state.date_replacements[CHOOSE i \in DOMAIN state.date_replacements :
                                state.date_replacements[i].key = key].value

\* C16: a scanned literal of the dominant day with a hyphen in its text has
\* its quoted and its bare form sent to the ISO-cutoff placeholder, one without
\* a hyphen has its bare form sent to the compact-cutoff placeholder; every
\* hyphenated key goes to the ISO placeholder and every other key to the
\* compact one.
C16_PlaceholderFollowsForm ==
    Returned("extract_dates_node") =>
        /\ \A i \in DOMAIN Scanned :
               (DayOf(Scanned[i].this) # "" /\ DayOf(Scanned[i].this) = Dominant(Scanned)) =>
                   LET text == Scanned[i].this
                   IN  IF \E c \in DOMAIN text : text[c] = "-"
                       THEN /\ {Quoted(text), text} \subseteq MapKeys
                            /\ MapValue(Quoted(text)) = ISO_PLACEHOLDER
                            /\ MapValue(text) = ISO_PLACEHOLDER
                       ELSE /\ text \in MapKeys
                            /\ MapValue(text) = COMPACT_PLACEHOLDER
        /\ \A key \in MapKeys :
               IF \E c \in DOMAIN key : key[c] = "-"
               THEN MapValue(key) = ISO_PLACEHOLDER
               ELSE MapValue(key) = COMPACT_PLACEHOLDER

C16_Witness ==
    /\ Returned("extract_dates_node")
    /\ {Quoted(Jan1Iso), Jan1Iso, Jan1Compact} \subseteq MapKeys
    /\ MapValue(Jan1Iso) = ISO_PLACEHOLDER
    /\ MapValue(Jan1Compact) = COMPACT_PLACEHOLDER

\* C17: only texts that denote a calendar day count.  A literal of another
\* shape or of an impossible day gives no key, quoted or bare, and cannot be
\* the dominant date however often it occurs: every key is a form of a
\* calendar day, and one valid literal among the scanned ones gives a map for
\* its day.
C17_OnlyValidDatesCount ==
    Returned("extract_dates_node") =>
        /\ \A key \in MapKeys : DayOf(Unquoted(key)) # ""
        /\ \A i \in DOMAIN Scanned :
               DayOf(Scanned[i].this) = "" =>
                   /\ Scanned[i].this \notin MapKeys
                   /\ Quoted(Scanned[i].this) \notin MapKeys
        /\ (SeenDays(Scanned) = {}) <=> (MapKeys = {})

C17_Witness ==
    /\ Returned("extract_dates_node")
    /\ env.main_parses
    /\ CteLiterals = <<>>
    /\ MainLiterals = <<Literal(NoSuchDay, TRUE), Literal(NoSuchDay, TRUE), Literal(Jan1Compact, FALSE)>>
    /\ MapKeys = {Jan1Compact}

\* C18: when no fragment holds a recognized date literal the map is empty, and
\* with an empty map every generated CTE function takes the receiver only and
\* every generated call passes nothing.
C18_NoDatesNoCutoffParameter ==
    /\ (Returned("extract_dates_node") /\ SeenDays(CteLiterals \o MainLiterals) = {}) =>
           state.date_replacements = <<>>
    /\ (Returned("convert_syntax_node") /\ state.date_replacements = <<>>) =>
           \A i \in DOMAIN state.ctes :
               /\ state.ctes[i].python_method.args_def = <<"self">>
               /\ state.ctes[i].python_create.args_call = <<>>

C18_Witness ==
    /\ Returned("convert_syntax_node")
    /\ SeenDays(CteLiterals \o MainLiterals) = {}
    /\ MainLiterals # <<>>
    /\ Len(state.ctes) = 2
    /\ state.ctes[2].python_method.args_def = <<"self">>
    /\ state.ctes[2].python_method.name = CteName(1)

\* a literal as it is written in SQL text
Written(lit) == IF lit.is_string THEN Quoted(lit.this) ELSE lit.this

\* a date literal of a day other than the one the map was built for
OtherDate(lit) ==
    /\ DayOf(lit.this) # ""
    /\ SeenDays(Scanned) # {} => DayOf(lit.this) # Dominant(Scanned)

\* the converted text has the cutoff of neither kind
NoCutoffIn(text) == ~Contains(text, <<"f", "e", "c", "h", "a", "_", "c", "o", "r", "t", "e">>)

\* lits are the literals of a fragment and text its converted form
OtherDatesKept(lits, text) ==
    /\ \A i \in DOMAIN lits : OtherDate(lits[i]) => Contains(text, Written(lits[i]))
    /\ (\A i \in DOMAIN lits : DayOf(lits[i].this) = "" \/ OtherDate(lits[i])) => NoCutoffIn(text)

\* C19: in every converted fragment, CTE body or main body, each date literal
\* of a day other than the dominant one is still written with its own value,
\* and a fragment without a literal of the dominant day has no cutoff
\* placeholder.
C19_OtherDatesStayLiterals ==
    Returned("convert_syntax_node") =>
        /\ \A i \in DOMAIN state.ctes :
               OtherDatesKept(env.parsed.tree.with[i].this.lits, state.ctes[i].new_sql)
        /\ OtherDatesKept(MainLiterals, state.new_last_select)

C19_Witness ==
    /\ Returned("convert_syntax_node")
    /\ env.main_parses
    /\ MainLiterals = <<Literal(Jan1Iso, TRUE), Literal(Jun1Iso, TRUE), Literal(Jan1Compact, FALSE)>>
    /\ Contains(state.new_last_select, Quoted(Jun1Iso))
    /\ ~Contains(state.new_last_select, Jan1Iso)
    /\ ~Contains(state.new_last_select, Jan1Compact)

----------------------------------------------------------------------------
(* Properties of the conversion *)

\* the text holds a placeholder token
HasPlaceholder(text) == Contains(text, <<"{">>)

ConversionOrder ==
    <<"parse_one", "clean_table_reference", "sql", "replace", "apply_date_replacements">>

\* the conversion of the fragment `tree` with the tables `tables` went through
\* the steps in order, each on what the step before gave, parsed and serialized
\* texts free of placeholders, and `converted` with its signature was derived
\* from the text the last step gave
ConvertedInOrder(tree, tables, converted, signature) ==
    LET steps == ConversionSteps([ok |-> TRUE, tree |-> tree], tables, state.date_replacements)
        final == configure_method_params(steps[Len(steps)].gives)
    IN  /\ [k \in DOMAIN steps |-> steps[k].op] = ConversionOrder
        /\ \A k \in 1..(Len(steps) - 1) : steps[k + 1].given = steps[k].gives
        /\ \A k \in DOMAIN steps :
               steps[k].op \in {"parse_one", "clean_table_reference", "sql"} =>
                   ~HasPlaceholder(steps[k].given)
        /\ converted = final.sql
        /\ signature \in {<<>>, final.args_def}

\* C20: every conversion of the run, of a CTE body or of the main body, parses
\* the source text, clears qualifiers, serializes, injects the table
\* placeholders, applies the date map and only then derives the signature;
\* what is parsed and serialized holds no placeholder, and the texts the node
\* parses are the extracted ones, never a converted text.  The signature of
\* the main body is derived and dropped.
C20_ConversionStepsInOrder ==
    Returned("convert_syntax_node") =>
        /\ \A i \in DOMAIN state.ctes :
               /\ state.ctes[i].inner_sql = env.parsed.tree.with[i].this
               /\ ConvertedInOrder(state.ctes[i].inner_sql, state.ctes[i].tables,
                                   state.ctes[i].new_sql, state.ctes[i].python_method.args_def)
        /\ state.last_select = extract_final_query_ast(env.parsed).value
        /\ ConvertedInOrder(state.last_select, state.tables, state.new_last_select, <<>>)

C20_Witness ==
    /\ Returned("convert_syntax_node")
    /\ Len(state.ctes) = 2
    /\ HasPlaceholder(state.ctes[1].new_sql)
    /\ Len(state.ctes[1].python_method.args_def) = 2
    /\ Contains(state.new_last_select, LOCAL_COMPACT)

----------------------------------------------------------------------------
(* Properties of the table passes of the conversion *)

\* the reference's schema.table is a key of the managed-table registry
InRegistry(node) ==
    \E k \in DOMAIN TABLE_CONFIG : Lower(k) = Lower(node.db \o <<".">> \o node.name)

\* refs are the table references of a fragment and text its converted form:
\* only the registry's tables lost their qualifiers
QualifiersClearedForRegistryOnly(refs, text) ==
    \A k \in DOMAIN refs :
        IF refs[k].db = NoText
        THEN Contains(text, <<"F", " ">> \o refs[k].name)
        ELSE InRegistry(refs[k]) <=> ~Contains(text, refs[k].db \o <<".">>)

\* C21: in every converted fragment a schema-qualified reference has lost its
\* qualifiers exactly when its schema.table is in the managed-table registry,
\* and an unqualified reference to a CTE is written as it was.
C21_OnlyRegistryTablesLoseQualifiers ==
    Returned("convert_syntax_node") =>
        /\ \A i \in DOMAIN state.ctes :
               QualifiersClearedForRegistryOnly(env.parsed.tree.with[i].this.refs,
                                                state.ctes[i].new_sql)
        /\ QualifiersClearedForRegistryOnly(env.parsed.tree.refs, state.new_last_select)

----------------------------------------------------------------------------
(* Conversion of scripts whose names overlap: tables x.u, y.uv and y.v, a   *)
(* CTE named c0 or, like the table, u, and the string literal 'u'           *)

NameRefs ==
    {TableNode(NoText, <<"x">>, <<"u">>), TableNode(NoText, <<"y">>, <<"u", "v">>),
     TableNode(NoText, <<"y">>, <<"v">>), TableNode(NoText, NoText, <<"u">>)}

NameBodies ==
    {Select(refs, lits) :
        refs \in SeqsUpTo(NameRefs, 2) \ {<<>>},
        lits \in {<<>>, <<Literal(<<"u">>, TRUE)>>}}

NameAliases == {CteName(0), <<"u">>}

NameWiths ==
    {<<>>} \cup {<<[alias |-> a, this |-> b]>> : a \in NameAliases, b \in NameBodies}

InitNames ==
    \E with \in NameWiths, main \in NameBodies, main_parses \in BOOLEAN :
        Start(Env("graph", "in.sql", "ok", <<"s">>,
                  [ok   |-> TRUE,
                   tree |-> [with |-> with, refs |-> main.refs, lits |-> main.lits]],
                  main_parses, NoFile))

\* the graph invoked directly, all of its nodes
NextGraph ==
    \/ parse_sql_node
    \/ extract_tables_node
    \/ extract_ctes_node
    \/ extract_last_select_node
    \/ extract_dates_node
    \/ convert_syntax_node
    \/ generate_code_node

SpecNames == InitNames /\ [][NextGraph]_vars

\* the lines of a text
RECURSIVE Lines(_)
Lines(text) ==
    LET nl == FindFrom(text, <<"\n">>, 1)
    IN  IF nl = 0 THEN <<text>>
        ELSE <<SubSeq(text, 1, nl - 1)>> \o Lines(Drop(text, nl))

\* the entry of known_tables a reference names, 0 if none
KnownAs(node, known_tables) ==
    IF \E i \in DOMAIN known_tables :
           /\ Lower(known_tables[i].table) = Lower(node.name)
           /\ Lower(known_tables[i].database) = Lower(node.db)
    THEN CHOOSE i \in DOMAIN known_tables :
           /\ Lower(known_tables[i].table) = Lower(node.name)
           /\ Lower(known_tables[i].database) = Lower(node.db)
    ELSE 0

Placeholder(table) == <<"{">> \o table.python_var \o <<"}">>

\* the text of the fragment after the table-placeholder pass
AfterTablePass(tree, known_tables) ==
    ConversionSteps([ok |-> TRUE, tree |-> tree], known_tables, <<>>)[4].gives

\* every reference of the fragment to a known table is written as the
\* placeholder of that table and as nothing else
KnownRefsArePlaceholders(tree, known_tables) ==
    LET lines == Lines(AfterTablePass(tree, known_tables))
    IN  \A k \in DOMAIN tree.refs :
            LET t == KnownAs(tree.refs[k], known_tables)
            IN  t # 0 => lines[k + 1] = <<"F", " ">> \o Placeholder(known_tables[t])

\* C22: after the table-placeholder pass of a conversion, every reference to a
\* table of the list passed to that conversion is the placeholder that wraps
\* the table's binding variable, and the bare name is no longer there.
C22_KnownReferencesBecomePlaceholders ==
    Returned("convert_syntax_node") =>
        /\ \A i \in DOMAIN state.ctes :
               KnownRefsArePlaceholders(state.ctes[i].inner_sql, state.ctes[i].tables)
        /\ KnownRefsArePlaceholders(state.last_select, state.tables)

----------------------------------------------------------------------------
(* Signature derivation on scripts of one CTE whose body holds up to two    *)
(* date literals                                                            *)

SignatureMainLits == {<<>>, <<Literal(Jan1Iso, TRUE)>>, <<Literal(Jan1Compact, FALSE)>>}

InitSignatures ==
    \E lits \in SeqsUpTo(DateLiterals, 2), main \in SignatureMainLits, main_parses \in BOOLEAN :
        Start(Env("graph", "in.sql", "ok", <<"s">>,
                  [ok   |-> TRUE,
                   tree |-> [with |-> <<[alias |-> CteName(0),
                                         this  |-> Select(<<TableNode(NoText, <<"x">>, <<"u">>)>>,
                                                          lits)]>>,
                             refs |-> <<TableNode(NoText, <<"y">>, <<"v">>)>>,
                             lits |-> main]],
                  main_parses, NoFile))

SpecSignatures == InitSignatures /\ [][NextDates]_vars

\* the text convert_syntax gave for the i-th CTE, before its signature is derived
TempSql(i) ==
    convert_syntax([ok |-> TRUE, tree |-> state.ctes[i].inner_sql],
                   state.ctes[i].tables, state.date_replacements).value

\* the i-th CTE got the one cutoff parameter param, passed as accessor, and its
\* text names it in the local form instead of the object-qualified placeholder
OneCutoffParameter(i, param, accessor, placeholder, local) ==
    /\ state.ctes[i].python_method.args_def = <<"self", param>>
    /\ state.ctes[i].python_create.args_call = <<accessor>>
    /\ state.ctes[i].new_sql = Replace(TempSql(i), placeholder, local)
    /\ ~Contains(state.ctes[i].new_sql, placeholder)
    /\ Contains(state.ctes[i].new_sql, local)

\* C23: a CTE whose converted text holds the ISO placeholder gets exactly the
\* ISO cutoff string parameter, called with the ISO accessor, and the quoted
\* local form in its text; one that holds the compact placeholder and not the
\* ISO one gets exactly the compact parameter and accessor; one that holds
\* neither gets no extra parameter, an empty argument list and its text as is.
C23_SignatureFollowsPlaceholder ==
    Returned("convert_syntax_node") =>
        \A i \in DOMAIN state.ctes :
            IF Contains(TempSql(i), ISO_PLACEHOLDER)
            THEN OneCutoffParameter(i, "fecha_corte_iso: str",
                                    "self.time_config.fecha_corte_iso",
                                    ISO_PLACEHOLDER, LOCAL_ISO)
            ELSE IF Contains(TempSql(i), COMPACT_PLACEHOLDER)
            THEN OneCutoffParameter(i, "fecha_corte: str", "self.time_config.fecha_corte",
                                    COMPACT_PLACEHOLDER, LOCAL_COMPACT)
            ELSE /\ state.ctes[i].python_method.args_def = <<"self">>
                 /\ state.ctes[i].python_create.args_call = <<>>
                 /\ state.ctes[i].new_sql = TempSql(i)

\* a converted CTE whose text held the compact placeholder only, next to a main
\* query that needed the ISO one
C23_Witness ==
    /\ Returned("convert_syntax_node")
    /\ ~Contains(TempSql(1), ISO_PLACEHOLDER)
    /\ Contains(TempSql(1), COMPACT_PLACEHOLDER)
    /\ state.ctes[1].python_method.args_def = <<"self", "fecha_corte: str">>
    /\ Contains(state.new_last_select, LOCAL_ISO)

----------------------------------------------------------------------------
(* Synthesis of scripts of one CTE whose string literals spell tag markers  *)

Markers ==
    {"#SETI_TAG_LISTA_TABLAS", "#SETI_TAG_METHODS_QUERY_REPLACE", "#SETI_TAG_CREATE_VIEWS",
     "#SETI_TAG_FINAL_TABLES", "#SETI_TAG_F_STRING_FINAL_QUERY"}

\* no literal, or the string literal that is the text of a marker
MarkerLits == {<<>>} \cup {<<Literal(<<m>>, TRUE)>> : m \in Markers}

InitMarkers ==
    \E with \in 0..1, lits \in MarkerLits, main \in MarkerLits, disk0 \in {NoFile, OldFile} :
        Start(Env("graph", "in.sql", "ok", <<"s">>,
                  [ok   |-> TRUE,
                   tree |-> [with |-> [i \in 1..with |->
                                          [alias |-> CteName(i - 1),
                                           this  |-> Select(<<TableNode(NoText, <<"x">>, <<"u">>)>>,
                                                            lits)]],
                             refs |-> <<TableNode(NoText, <<"y">>, <<"v">>)>>,
                             lits |-> main]],
                  TRUE, disk0))

SpecMarkers == InitMarkers /\ [][NextGraph]_vars

\* the texts of the script inside a piece of the written file
TextsOf(piece) ==
    IF piece.kind # "value" THEN {}
    ELSE IF piece.text = "#SETI_TAG_METHODS_QUERY_REPLACE"
    THEN {piece.value[m].body : m \in DOMAIN piece.value}
    ELSE IF piece.text = "#SETI_TAG_F_STRING_FINAL_QUERY"
    THEN {piece.value}
    ELSE {}

\* the markers the content still spells
MarkersIn(content) ==
    {content[i].text : i \in {j \in DOMAIN content : content[j].kind = "tag"}}
        \cup {m \in Markers :
                \E i \in DOMAIN content : \E text \in TextsOf(content[i]) :
                    \E k \in DOMAIN text : text[k] = m}

\* C24: the file a run wrote to completion spells none of the five tag markers,
\* whatever the tables, the CTEs and the main query are, a main query or CTE
\* body with a string literal that is the text of a marker included.
C24_WrittenFileHasNoMarker ==
    (pc = "END" /\ disk.exists) => MarkersIn(disk.content) = {}

----------------------------------------------------------------------------
(* Input errors *)

\* the source path is unset, the source file is missing, or it is empty
BadInput ==
    \/ env.sql_file_path = ""
    \/ env.file = "missing"
    \/ env.file = "ok" /\ env.raw = <<>>

\* C25: a run whose source path is unset or whose source file is missing or
\* empty never gets past Preprocessing: it is at the command surface, in
\* Preprocessing, or has failed there with an input error, and TableExtraction,
\* which makes the first parse call, is never entered.
C25_BadInputFailsInPreprocessing ==
    BadInput =>
        /\ pc \in {"cli", "parse_sql", "Failed"}
        /\ \A k \in DOMAIN executed : executed[k] = "parse_sql"
        /\ pc = "Failed" => error \in {"ValueError", "FileNotFoundError", "IOError"}

----------------------------------------------------------------------------
(* Placeholders and bindings of the written file *)

\* the names between each { of a text and the } that follows it
BraceNames(text) ==
    {SubSeq(text, i + 1, FindFrom(text, <<"}">>, i) - 1) :
        i \in {k \in DOMAIN text : text[k] = "{"}}

BoundVars(bindings) == {bindings[k].var : k \in DOMAIN bindings}

\* C26: in a file the run wrote, every table placeholder of a generated function
\* body names a variable that the function binds from its own tables, and every
\* table placeholder of the final query names a variable bound in front of it.
C26_PlaceholdersAreBound ==
    (pc = "END" /\ disk.exists) =>
        /\ \A m \in DOMAIN Substituted(disk.content, "#SETI_TAG_METHODS_QUERY_REPLACE") :
               LET method == Substituted(disk.content, "#SETI_TAG_METHODS_QUERY_REPLACE")[m]
               IN  BraceNames(method.body) \subseteq BoundVars(method.table_vars)
        /\ BraceNames(Substituted(disk.content, "#SETI_TAG_F_STRING_FINAL_QUERY"))
               \subseteq BoundVars(Substituted(disk.content, "#SETI_TAG_FINAL_TABLES"))

----------------------------------------------------------------------------
(* The record grows by appending *)

\* what CteExtraction wrote of a CTE
Extracted(cte) ==
    [name |-> cte.name, inner_sql |-> cte.inner_sql, position |-> cte.position,
     tables |-> cte.tables]

\* what Conversion wrote of a CTE
Converted(cte) ==
    [new_sql |-> cte.new_sql, python_method |-> cte.python_method,
     python_create |-> cte.python_create]

\* a step of the stage at pc changes nothing but that stage's own fields
OnlyOwnFieldsChange ==
    /\ state'.sql_file_path = state.sql_file_path
    /\ state'.business_name = state.business_name
    /\ state'.output_dir = state.output_dir
    /\ pc # "parse_sql" =>
           (state'.raw_sql = state.raw_sql /\ state'.cleaned_sql = state.cleaned_sql)
    /\ pc # "extract_tables_node" => state'.tables = state.tables
    /\ pc # "extract_ctes_node" =>
           /\ Len(state'.ctes) = Len(state.ctes)
           /\ \A i \in DOMAIN state.ctes : Extracted(state'.ctes[i]) = Extracted(state.ctes[i])
    /\ pc # "extract_last_select_node" => state'.last_select = state.last_select
    /\ pc # "extract_dates_node" => state'.date_replacements = state.date_replacements
    /\ pc # "convert_syntax_node" =>
           /\ state'.new_last_select = state.new_last_select
           /\ \A i \in DOMAIN state.ctes :
                  i \in DOMAIN state'.ctes => Converted(state'.ctes[i]) = Converted(state.ctes[i])

----------------------------------------------------------------------------
(* Placeholders and the replacements after them *)

\* how many times pat is written in text
CountIn(text, pat) ==
    Cardinality({i \in DOMAIN text :
                    i + Len(pat) - 1 <= Len(text) /\ SubSeq(text, i, i + Len(pat) - 1) = pat})

\* the text of a fragment after the placeholder pass of the first k known tables
AfterTables(tree, known_tables, k) ==
    InjectTables(PrettySql(CleanTables(tree, known_tables)), SubSeq(known_tables, 1, k))

\* the placeholders put in for the k-th known table are all there after each
\* later replacement of the same conversion
PlaceholdersSurvive(tree, known_tables, date_replacements) ==
    \A k \in DOMAIN known_tables :
        LET inserted == CountIn(AfterTables(tree, known_tables, k),
                                Placeholder(known_tables[k]))
        IN  /\ \A j \in k..Len(known_tables) :
                   CountIn(AfterTables(tree, known_tables, j),
                           Placeholder(known_tables[k])) = inserted
            /\ CountIn(convert_syntax([ok |-> TRUE, tree |-> tree], known_tables,
                                      date_replacements).value,
                       Placeholder(known_tables[k])) = inserted

\* C28: in every conversion of a run, a table placeholder, once inserted, is
\* still there character for character after the placeholder passes of the
\* known tables that follow and after the date replacements.
C28_PlaceholdersSurviveLaterPasses ==
    Returned("convert_syntax_node") =>
        /\ \A i \in DOMAIN state.ctes :
               PlaceholdersSurvive(state.ctes[i].inner_sql, state.ctes[i].tables,
                                   state.date_replacements)
        /\ PlaceholdersSurvive(state.last_select, state.tables, state.date_replacements)

----------------------------------------------------------------------------
(* Cutoff placeholders after the signature is derived *)

NoQualifiedCutoff(text) ==
    ~Contains(text, ISO_PLACEHOLDER) /\ ~Contains(text, COMPACT_PLACEHOLDER)

InList(list, x) == \E k \in DOMAIN list : list[k] = x

\* C29: once the signatures are derived, no converted text, of a CTE or of the
\* main query, holds an object-qualified cutoff placeholder, and a local cutoff
\* placeholder in a CTE's text names a parameter of that CTE's function, a
\* CTE in which the dominant date is written both in ISO and in compact form
\* included.
C29_NoQualifiedCutoffLeft ==
    Returned("convert_syntax_node") =>
        /\ NoQualifiedCutoff(state.new_last_select)
        /\ \A i \in DOMAIN state.ctes :
               /\ NoQualifiedCutoff(state.ctes[i].new_sql)
               /\ Contains(state.ctes[i].new_sql, LOCAL_ISO) =>
                      InList(state.ctes[i].python_method.args_def, "fecha_corte_iso: str")
               /\ Contains(state.ctes[i].new_sql, LOCAL_COMPACT) =>
                      InList(state.ctes[i].python_method.args_def, "fecha_corte: str")

----------------------------------------------------------------------------
(* What the table-placeholder pass leaves alone *)

\* the lines of the fragment that are no reference to a known table, literals
\* and references to CTEs, read the same before and after the pass
OnlyKnownRefsChange(tree, known_tables) ==
    LET pass == ConversionSteps([ok |-> TRUE, tree |-> tree], known_tables, <<>>)[4]
        before == Lines(pass.given)
        after == Lines(pass.gives)
    IN  /\ Len(after) = Len(before)
        /\ \A k \in DOMAIN tree.refs :
               KnownAs(tree.refs[k], known_tables) = 0 => after[k + 1] = before[k + 1]
        /\ \A k \in DOMAIN tree.lits :
               after[1 + Len(tree.refs) + k] = before[1 + Len(tree.refs) + k]

\* C30: the table-placeholder pass of every conversion of a run rewrites
\* references to known tables only: a string literal that contains the name of
\* a known table and an unqualified reference to a CTE named like a known table
\* read the same before and after the pass.
C30_PassChangesOnlyKnownReferences ==
    Returned("convert_syntax_node") =>
        /\ \A i \in DOMAIN state.ctes :
               OnlyKnownRefsChange(state.ctes[i].inner_sql, state.ctes[i].tables)
        /\ OnlyKnownRefsChange(state.last_select, state.tables)

====
